---- MODULE Spec2Model ----
(***************************************************************************)
(* A model of OccupancyGridUtils.py: merge_maps (the merge of several      *)
(* occupancy grids into one grid of a shared world frame) and get_map_img  *)
(* (the reshape of a flat OccupancyGrid data field and its crop to the     *)
(* bounding box of the scanned cells).                                     *)
(*                                                                         *)
(* World coordinates, resolutions and origins are integers: on them the    *)
(* float arithmetic of the code is exact, so that equal keys of the dict   *)
(* are equal integers.  Python lists are 0-based, sequences are 1-based:   *)
(* list[k] is seq[k + 1].                                                  *)
(***************************************************************************)
EXTENDS Integers, Sequences, FiniteSets, TLC

VARIABLES
    \* merge_maps: the arguments
    maps_data, maps_resolution, maps_origin, maps_size, threshold,
    \* merge_maps: the locals
    grid,        \* the dict, as a function from the keys <<x, y>> to BOOLEAN
    grid_keys,   \* the keys of the dict in insertion order (its iteration order)
    index, i, j, occupancy, resolution, origin_x, origin_y,
    o_x, o_y, h, w,
    \* get_map_img: the arguments
    map_data, size, crop, padding,
    \* get_map_img: the locals
    cut_img,
    \* the locals both functions name alike
    height, width, min_x, max_x, min_y, max_y, img,
    \* the position in the running function and the exception raised, if any
    pc, err

vars == << maps_data, maps_resolution, maps_origin, maps_size, threshold,
           grid, grid_keys, index, i, j, occupancy, resolution, origin_x,
           origin_y, o_x, o_y, h, w, map_data, size, crop, padding, cut_img,
           height, width, min_x, max_x, min_y, max_y, img, pc, err >>

mergeArgs == << maps_data, maps_resolution, maps_origin, maps_size, threshold >>
cropArgs  == << map_data, size, crop, padding >>

-----------------------------------------------------------------------------
(* Bounds of the model *)

MaxSources == 2     \* grids passed to merge_maps
MaxDim     == 2     \* height and width of a grid passed to merge_maps
MaxCells   == 5     \* cells of all the grids of one merge_maps call
MaxFewCells == 2    \* the same, in the calls of SpecFew
MaxOrigin  == 1     \* origin coordinates are in 0..MaxOrigin
MaxRes     == 1     \* resolutions are in 0..MaxRes
MaxCropDim == 3     \* height and width of a grid passed to get_map_img
MaxPadding == 2     \* padding is in 0..MaxPadding

(* Program constants *)

inf == 1000000            \* math.inf: above every coordinate of the model
DefaultThreshold == 70    \* threshold=70

\* -1 (unscanned), the greatest value that is not an obstacle, the least that is
CellValues == {-1, DefaultThreshold, DefaultThreshold + 1}
\* get_map_img tells -1 from the rest only
CropValues == {-1, 0}

-----------------------------------------------------------------------------
(* Python and numpy primitives *)

Abs(a) == IF a < 0 THEN -a ELSE a

Min2(a, b) == IF a < b THEN a ELSE b

Max2(a, b) == IF a > b THEN a ELSE b

IsFinite(a) == a # inf /\ a # -inf

\* a - b on floats, where a or b may be inf or -inf (never both of one sign here)
FSub(a, b) ==
    IF a = inf \/ b = -inf THEN inf
    ELSE IF a = -inf \/ b = inf THEN -inf
    ELSE a - b

\* abs on floats
FAbs(a) == IF IsFinite(a) THEN Abs(a) ELSE inf

\* round(a / b) for finite a and b > 0: Python 3 rounds a half to the even integer
Round(a, b) ==
    LET q == a \div b
        r == a % b
    IN  IF 2 * r < b THEN q
        ELSE IF 2 * r > b THEN q + 1
        ELSE IF q % 2 = 0 THEN q ELSE q + 1

\* numpy index k on an axis of length n: a negative index counts from the end
NormIndex(k, n) == IF k < 0 THEN k + n ELSE k

IndexOk(k, n) == NormIndex(k, n) >= 0 /\ NormIndex(k, n) < n

\* np.zeros((rows, cols)) - 1
Unknown(rows, cols) == [r \in 1..rows |-> [c \in 1..cols |-> -1]]

-----------------------------------------------------------------------------
(* merge_maps *)

\* the value written for a key of the dict: 100 if grid[p] else 0
CellOf(b) == IF b THEN 100 ELSE 0

\* occupancy[i + j * width] > threshold
IsObstacle(v) == v > threshold

\* lines 138-145: the running bounds after one more coordinate v
NewMin(lo, hi, v) == IF v < lo THEN v ELSE lo

NewMax(lo, hi, v) == IF v < lo THEN hi ELSE IF v > hi THEN v ELSE hi

\* NewGrid with line 136 dropped: a cell that is not an obstacle writes False
\* over the key
NewGridOverwriting(p, v) ==
    [q \in DOMAIN grid \cup {p} |-> IF q = p THEN IsObstacle(v) ELSE grid[q]]

\* lines 127-137: the dict after the cell of value v at the key p
NewGrid(p, v) ==
    IF IsObstacle(v) THEN [q \in DOMAIN grid \cup {p} |-> IF q = p THEN TRUE ELSE grid[q]]
    ELSE IF p \in DOMAIN grid THEN grid
    ELSE [q \in DOMAIN grid \cup {p} |-> IF q = p THEN FALSE ELSE grid[q]]

NewKeys(p) == IF p \in DOMAIN grid THEN grid_keys ELSE Append(grid_keys, p)

\* SourceCount of a loop over zip(maps_data, maps_resolution, maps_origin,
\* maps_size): the length of the shortest list
SourceCountOfZip ==
    Min2(Min2(Len(maps_data), Len(maps_resolution)),
         Min2(Len(maps_origin), Len(maps_size)))

\* range(len(maps_data))
SourceCount == Len(maps_data)

\* line 118-122: the head of the loop over the sources
ForIndex ==
    /\ pc = "for_index"
    /\ IF index >= SourceCount
       THEN /\ pc' = "allocate"
            /\ UNCHANGED << occupancy, resolution, origin_x, origin_y,
                            height, width, i, j, err >>
       ELSE IF \/ index >= Len(maps_resolution)
               \/ index >= Len(maps_origin)
               \/ index >= Len(maps_size)
       THEN /\ pc' = "error"
            /\ err' = "IndexError"
            /\ UNCHANGED << occupancy, resolution, origin_x, origin_y,
                            height, width, i, j >>
       ELSE /\ occupancy' = maps_data[index + 1]
            /\ resolution' = maps_resolution[index + 1]
            /\ origin_x' = maps_origin[index + 1][1]
            /\ origin_y' = maps_origin[index + 1][2]
            /\ height' = maps_size[index + 1][1]
            /\ width' = maps_size[index + 1][2]
            /\ i' = 0
            /\ j' = 0
            /\ pc' = "cell"
            /\ UNCHANGED err
    /\ UNCHANGED << mergeArgs, cropArgs, grid, grid_keys, index, o_x, o_y, h, w,
                    cut_img, min_x, max_x, min_y, max_y, img >>

\* lines 123-145: one iteration of the loops over the cells of a source
ScanCell ==
    /\ pc = "cell"
    /\ LET k == i + j * width
           v == occupancy[k + 1]
           x == (i * resolution) + origin_x
           y == (j * resolution) + origin_y
           p == << x, y >>
       IN  IF k >= Len(occupancy)
           THEN /\ pc' = "error"
                /\ err' = "IndexError"
                /\ UNCHANGED << grid, grid_keys, min_x, max_x, min_y, max_y,
                                index, i, j >>
           ELSE /\ IF v = -1
                   THEN UNCHANGED << grid, grid_keys, min_x, max_x, min_y, max_y >>
                   ELSE /\ grid' = NewGrid(p, v)
                        /\ grid_keys' = NewKeys(p)
                        /\ min_x' = NewMin(min_x, max_x, x)
                        /\ max_x' = NewMax(min_x, max_x, x)
                        /\ min_y' = NewMin(min_y, max_y, y)
                        /\ max_y' = NewMax(min_y, max_y, y)
                /\ IF j + 1 < height
                   THEN j' = j + 1 /\ UNCHANGED << i, index, pc >>
                   ELSE IF i + 1 < width
                   THEN i' = i + 1 /\ j' = 0 /\ UNCHANGED << index, pc >>
                   ELSE index' = index + 1 /\ pc' = "for_index" /\ UNCHANGED << i, j >>
                /\ UNCHANGED err
    /\ UNCHANGED << mergeArgs, cropArgs, occupancy, resolution, origin_x,
                    origin_y, o_x, o_y, h, w, cut_img, height, width, img >>

\* ScaleError of a merge that divides by the resolution of every source
ScaleErrorOfAnySource ==
    IF SourceCount = 0 THEN "UnboundLocalError"
    ELSE IF \E k \in 1..Len(maps_resolution) : maps_resolution[k] = 0
    THEN "ZeroDivisionError"
    ELSE IF \/ ~IsFinite(FAbs(FSub(max_y, min_y)))
            \/ ~IsFinite(FAbs(FSub(max_x, min_x)))
    THEN "OverflowError"
    ELSE "none"

\* line 146: the exception of round(abs(max - min) / resolution), if any.  The
\* name resolution is unbound after no iteration; a division by 0 raises before
\* round is called; round(inf) raises OverflowError
ScaleError ==
    IF SourceCount = 0 THEN "UnboundLocalError"
    ELSE IF resolution = 0 THEN "ZeroDivisionError"
    ELSE IF \/ ~IsFinite(FAbs(FSub(max_y, min_y)))
            \/ ~IsFinite(FAbs(FSub(max_x, min_x)))
    THEN "OverflowError"
    ELSE "none"

\* lines 146-148: the size and the origin of the merged map, and its empty grid
Allocate ==
    /\ pc = "allocate"
    /\ IF ScaleError # "none"
       THEN /\ pc' = "error"
            /\ err' = ScaleError
            /\ UNCHANGED << h, w, o_x, o_y, img >>
       ELSE /\ h' = Round(Abs(max_y - min_y), resolution)
            /\ w' = Round(Abs(max_x - min_x), resolution)
            /\ o_x' = min_x
            /\ o_y' = min_y
            /\ img' = Unknown(h' + 1, w' + 1)
            /\ pc' = "rasterize"
            /\ UNCHANGED err
    /\ UNCHANGED << mergeArgs, cropArgs, grid, grid_keys, index, i, j, occupancy,
                    resolution, origin_x, origin_y, cut_img, height, width,
                    min_x, max_x, min_y, max_y >>

\* line 151: the column and the row of the key p in the merged map
ColOf(p) == Round(p[1] - o_x, resolution)

RowOf(p) == Round(p[2] - o_y, resolution)

\* line 152 for the key p: is img[y, x] inside the array
InImg(p) == IndexOk(RowOf(p), h + 1) /\ IndexOk(ColOf(p), w + 1)

\* lines 149-152 for the keys n..len(grid) in insertion order, from the array m
RECURSIVE Paint(_, _)
Paint(m, n) ==
    IF n > Len(grid_keys) THEN m
    ELSE LET p == grid_keys[n]
             r == NormIndex(RowOf(p), h + 1) + 1
             c == NormIndex(ColOf(p), w + 1) + 1
         IN  Paint([m EXCEPT ![r][c] = CellOf(grid[p])], n + 1)

\* lines 149-153: the loop over the dict, and the return
Rasterize ==
    /\ pc = "rasterize"
    /\ IF \A n \in 1..Len(grid_keys) : InImg(grid_keys[n])
       THEN /\ img' = Paint(img, 1)
            /\ pc' = "done"
            /\ UNCHANGED err
       ELSE /\ pc' = "error"
            /\ err' = "IndexError"
            /\ UNCHANGED img
    /\ UNCHANGED << mergeArgs, cropArgs, grid, grid_keys, index, i, j, occupancy,
                    resolution, origin_x, origin_y, o_x, o_y, h, w, cut_img,
                    height, width, min_x, max_x, min_y, max_y >>

-----------------------------------------------------------------------------
(* The calls of merge_maps *)

Shapes == (1..MaxDim) \X (1..MaxDim)

Grids(s) == [1..(s[1] * s[2]) -> CellValues]

RECURSIVE TotalCells(_)
TotalCells(sizes) ==
    IF sizes = << >> THEN 0
    ELSE Head(sizes)[1] * Head(sizes)[2] + TotalCells(Tail(sizes))

SizeLists(cells) ==
    { s \in UNION { [1..n -> Shapes] : n \in 1..MaxSources } :
        TotalCells(s) <= cells }

RECURSIVE DataLists(_)
DataLists(sizes) ==
    IF sizes = << >> THEN { << >> }
    ELSE { << g >> \o rest : g \in Grids(Head(sizes)), rest \in DataLists(Tail(sizes)) }

Origins == (0..MaxOrigin) \X (0..MaxOrigin)

Resolutions == 0..MaxRes

\* get_map_img not called
CropIdle ==
    /\ map_data = << >>
    /\ size = << 0, 0 >>
    /\ crop = FALSE
    /\ padding = 0
    /\ cut_img = << >>

\* the state of merge_maps at line 118
MergeEntry ==
    /\ threshold = DefaultThreshold
    /\ grid = << >>
    /\ grid_keys = << >>
    /\ min_x = inf
    /\ min_y = inf
    /\ max_x = -inf
    /\ max_y = -inf
    /\ index = 0
    /\ i = 0
    /\ j = 0
    /\ occupancy = << >>
    /\ resolution = 0
    /\ origin_x = 0
    /\ origin_y = 0
    /\ height = 0
    /\ width = 0
    /\ o_x = 0
    /\ o_y = 0
    /\ h = 0
    /\ w = 0
    /\ img = << >>
    /\ pc = "for_index"
    /\ err = "none"
    /\ CropIdle

\* merge_maps called with four lists of the same length
Init ==
    /\ maps_size \in SizeLists(MaxCells)
    /\ maps_data \in DataLists(maps_size)
    /\ maps_resolution \in [1..Len(maps_size) -> Resolutions]
    /\ maps_origin \in [1..Len(maps_size) -> Origins]
    /\ MergeEntry

Next == ForIndex \/ ScanCell \/ Allocate \/ Rasterize

Spec == Init /\ [][Next]_vars

\* the same calls, of at most MaxFewCells cells
InitFew ==
    /\ maps_size \in SizeLists(MaxFewCells)
    /\ maps_data \in DataLists(maps_size)
    /\ maps_resolution \in [1..Len(maps_size) -> Resolutions]
    /\ maps_origin \in [1..Len(maps_size) -> Origins]
    /\ MergeEntry

SpecFew == InitFew /\ [][Next]_vars

\* merge_maps called with four lists of any lengths, of grids of one cell at
\* the origin (0, 0)
ListsUpTo(n, S) == UNION { [1..m -> S] : m \in 0..n }

InitArity ==
    /\ maps_data \in ListsUpTo(MaxSources, Grids(<< 1, 1 >>))
    /\ maps_size \in ListsUpTo(MaxSources + 1, { << 1, 1 >> })
    /\ maps_resolution \in ListsUpTo(MaxSources + 1, Resolutions)
    /\ maps_origin \in ListsUpTo(MaxSources + 1, { << 0, 0 >> })
    /\ MergeEntry

SpecArity == InitArity /\ [][Next]_vars

-----------------------------------------------------------------------------
(* get_map_img *)

SetMin(S) == CHOOSE m \in S : \A n \in S : m <= n

SetMax(S) == CHOOSE m \in S : \A n \in S : m >= n

\* np.reshape(map_data, [rows, cols]): row-major
Reshaped(data, rows, cols) ==
    [r \in 1..rows |-> [c \in 1..cols |-> data[(r - 1) * cols + c]]]

\* the bounds of the slice a:b on an axis of length n
SliceStart(a, n) == IF a < 0 THEN Max2(a + n, 0) ELSE Min2(a, n)

SliceStop(b, n) == IF b < 0 THEN Max2(b + n, 0) ELSE Min2(b, n)

\* m[a:b, c:d] of the array m of rows x cols cells
Slice(m, rows, cols, a, b, c, d) ==
    LET r0 == SliceStart(a, rows)
        r1 == SliceStop(b, rows)
        c0 == SliceStart(c, cols)
        c1 == SliceStop(d, cols)
    IN  [r \in 1..(r1 - r0) |-> [k \in 1..(c1 - c0) |-> m[r0 + r][c0 + k]]]

\* the columns and the rows (0-based) that hold a cell other than -1
KnownCols == { c \in 0..(width - 1) : \E r \in 1..height : img[r][c + 1] # -1 }

KnownRows == { r \in 0..(height - 1) : \E c \in 1..width : img[r + 1][c] # -1 }

\* lines 37-39: the reshape; np.reshape raises ValueError on any other length
Reshape ==
    /\ pc = "reshape"
    /\ IF Len(map_data) # size[1] * size[2]
       THEN /\ pc' = "error"
            /\ err' = "ValueError"
            /\ UNCHANGED << height, width, img >>
       ELSE /\ height' = size[1]
            /\ width' = size[2]
            /\ img' = Reshaped(map_data, size[1], size[2])
            /\ pc' = IF crop THEN "find_bounds" ELSE "no_crop"
            /\ UNCHANGED err
    /\ UNCHANGED << mergeArgs, cropArgs, grid, grid_keys, index, i, j, occupancy,
                    resolution, origin_x, origin_y, o_x, o_y, h, w, cut_img,
                    min_x, max_x, min_y, max_y >>

\* lines 40-55: each loop keeps the least (greatest) index of a cell other than
\* -1 that is below (above) its start value
FindBounds ==
    /\ pc = "find_bounds"
    /\ min_x' = SetMin(KnownCols \cup {width})
    /\ max_x' = SetMax(KnownCols \cup {0})
    /\ min_y' = SetMin(KnownRows \cup {height})
    /\ max_y' = SetMax(KnownRows \cup {0})
    /\ pc' = "cut"
    /\ UNCHANGED << mergeArgs, cropArgs, grid, grid_keys, index, i, j, occupancy,
                    resolution, origin_x, origin_y, o_x, o_y, h, w, cut_img,
                    height, width, img, err >>

\* lines 56-59: the lower bounds moved up to the padding
Clamped(lo) == IF lo < padding THEN padding ELSE lo

\* line 60: the bounds of the slice
RowFrom == min_y - padding

\* RowTo of a slice that includes the row max_y + padding
RowToInclusive == max_y + padding + 1

RowTo == max_y + padding

ColFrom == min_x - padding

ColTo == max_x + padding

\* lines 56-60 and 63
Cut ==
    /\ pc = "cut"
    /\ UNCHANGED << mergeArgs, cropArgs, grid, grid_keys, index, i, j, occupancy,
                    resolution, origin_x, origin_y, o_x, o_y, h, w,
                    height, width, max_x, max_y, img, err >>
    /\ min_y' = Clamped(min_y)
    /\ min_x' = Clamped(min_x)
    /\ cut_img' = Slice(img, height, width, RowFrom', RowTo', ColFrom', ColTo')
    /\ pc' = "done"

\* lines 61-63
NoCrop ==
    /\ pc = "no_crop"
    /\ cut_img' = img
    /\ pc' = "done"
    /\ UNCHANGED << mergeArgs, cropArgs, grid, grid_keys, index, i, j, occupancy,
                    resolution, origin_x, origin_y, o_x, o_y, h, w,
                    height, width, min_x, max_x, min_y, max_y, img, err >>

-----------------------------------------------------------------------------
(* The calls of get_map_img *)

\* merge_maps not called
MergeIdle ==
    /\ maps_data = << >>
    /\ maps_resolution = << >>
    /\ maps_origin = << >>
    /\ maps_size = << >>
    /\ threshold = DefaultThreshold
    /\ grid = << >>
    /\ grid_keys = << >>
    /\ index = 0
    /\ i = 0
    /\ j = 0
    /\ occupancy = << >>
    /\ resolution = 0
    /\ origin_x = 0
    /\ origin_y = 0
    /\ o_x = 0
    /\ o_y = 0
    /\ h = 0
    /\ w = 0

\* get_map_img called on the data field of a map of the given size
InitCrop ==
    /\ size \in (1..MaxCropDim) \X (1..MaxCropDim)
    /\ map_data \in [1..(size[1] * size[2]) -> CropValues]
    /\ crop \in BOOLEAN
    /\ padding \in 0..MaxPadding
    /\ cut_img = << >>
    /\ height = 0
    /\ width = 0
    /\ min_x = 0
    /\ max_x = 0
    /\ min_y = 0
    /\ max_y = 0
    /\ img = << >>
    /\ pc = "reshape"
    /\ err = "none"
    /\ MergeIdle

NextCrop == Reshape \/ FindBounds \/ Cut \/ NoCrop

SpecCrop == InitCrop /\ [][NextCrop]_vars

-----------------------------------------------------------------------------
(* What a call of merge_maps observes, read off its arguments *)

Terminated == pc \in {"done", "error"}

\* the cells <<i, j>> (column, row) of the source k, and the value of one
CellsOf(k) == (0..(maps_size[k][2] - 1)) \X (0..(maps_size[k][1] - 1))

ValueAt(k, c) == maps_data[k][c[1] + c[2] * maps_size[k][2] + 1]

\* lines 128-129 and 133-134: the world coordinate of the cell c of the source k
WorldOf(k, c) ==
    << c[1] * maps_resolution[k] + maps_origin[k][1],
       c[2] * maps_resolution[k] + maps_origin[k][2] >>

\* the observations <<k, c>> of a cell other than -1
Observations ==
    { o \in UNION { {k} \X CellsOf(k) : k \in 1..Len(maps_data) } :
        ValueAt(o[1], o[2]) # -1 }

Observed == { WorldOf(o[1], o[2]) : o \in Observations }

ObservedX == { p[1] : p \in Observed }

ObservedY == { p[2] : p \in Observed }

\* the world coordinates some source reports above the threshold
ObstaclePoints ==
    { WorldOf(o[1], o[2]) : o \in { q \in Observations : ValueAt(q[1], q[2]) > threshold } }

\* the sources that report the point p above, and not above, the threshold
ObstacleSources(p) ==
    { o[1] : o \in { q \in Observations :
                        WorldOf(q[1], q[2]) = p /\ ValueAt(q[1], q[2]) > threshold } }

FreeSources(p) ==
    { o[1] : o \in { q \in Observations :
                        WorldOf(q[1], q[2]) = p /\ ValueAt(q[1], q[2]) <= threshold } }

\* the threshold rule on one cell value
Thresholded(v) == IF v = -1 THEN -1 ELSE IF v > threshold THEN 100 ELSE 0

\* the cells of a grid
CellCount(m) == IF Len(m) = 0 THEN 0 ELSE Len(m) * Len(m[1])

-----------------------------------------------------------------------------
(* merge_maps: the claims *)

\* C1: when all the sources (of resolution > 0) are processed, min_x, max_x, min_y, max_y are the
\* least and the greatest world coordinates of the cells other than -1, and the
\* origin and the size of the merged map are those of that bounding box.
C1_BoundsAreExtremes ==
    (Observed # {} /\ \A k \in 1..Len(maps_data) : maps_resolution[k] > 0) =>
        /\ pc = "allocate" =>
              /\ min_x = SetMin(ObservedX)
              /\ max_x = SetMax(ObservedX)
              /\ min_y = SetMin(ObservedY)
              /\ max_y = SetMax(ObservedY)
        /\ pc = "rasterize" =>
              /\ o_x = SetMin(ObservedX)
              /\ o_y = SetMin(ObservedY)
              /\ h = Round(SetMax(ObservedY) - SetMin(ObservedY), resolution)
              /\ w = Round(SetMax(ObservedX) - SetMin(ObservedX), resolution)

\* C2: the merge of one source of resolution > 0 (here with a cell other than
\* -1) with threshold 70 returns a grid of the origin and the resolution of the
\* source, whose cells are the cells of the source under the threshold rule.
C2_SingleSourceIsItself ==
    (/\ Terminated
     /\ Len(maps_data) = 1
     /\ maps_resolution[1] > 0
     /\ threshold = 70
     /\ Observed # {}) =>
        /\ pc = "done"
        /\ o_x = maps_origin[1][1]
        /\ o_y = maps_origin[1][2]
        /\ resolution = maps_resolution[1]
        /\ Len(img) = maps_size[1][1]
        /\ \A r \in 1..Len(img) :
              /\ Len(img[r]) = maps_size[1][2]
              /\ \A c \in 1..Len(img[r]) :
                    img[r][c] = Thresholded(ValueAt(1, << c - 1, r - 1 >>))

\* C3: when one of two sources reports a world coordinate above the threshold
\* and the other reports it at or below the threshold, the merge returns a grid
\* with 100 in the cell of that coordinate, whichever source comes first.
C3_ObstaclePrecedence ==
    (Terminated /\ Len(maps_data) = 2 /\ \A k \in 1..2 : maps_resolution[k] > 0) =>
        \A p \in Observed :
            (\E a, b \in 1..2 : a # b /\ a \in ObstacleSources(p) /\ b \in FreeSources(p)) =>
                /\ pc = "done"
                /\ img[RowOf(p) + 1][ColOf(p) + 1] = 100

\* C10: with one resolution > 0 shared by the sources and a cell other than -1,
\* every key of the dict falls on a cell of the allocated grid, and the merge
\* returns a grid.
C10_RasterStaysInside ==
    (/\ Observed # {}
     /\ \A k \in 1..Len(maps_data) :
           maps_resolution[k] = maps_resolution[1] /\ maps_resolution[k] > 0) =>
        /\ pc # "error"
        /\ pc = "rasterize" => \A n \in 1..Len(grid_keys) : InImg(grid_keys[n])

\* C8: a key of the dict that holds True holds True in every later state of the
\* scan, a key that is in the dict is never written False, and when all the
\* sources are processed the dict holds the observed coordinates, each with
\* True exactly when some source reports it above the threshold.
C8_ObstaclesStay ==
    /\ [][\A p \in DOMAIN grid : p \in DOMAIN grid' /\ (grid[p] => grid'[p])]_vars
    /\ [](pc = "allocate" =>
            /\ DOMAIN grid = Observed
            /\ \A p \in Observed : grid[p] <=> p \in ObstaclePoints)

\* a free observation of a coordinate was scanned after an obstacle at it
C8_Witness ==
    /\ pc = "allocate"
    /\ \E p \in Observed :
          /\ grid[p]
          /\ \E a \in ObstacleSources(p), b \in FreeSources(p) : a < b

\* C5 as claimed: the merge returns no grid when the resolution of any source
\* is 0.
C5_AnyZeroResolutionFails ==
    (Terminated /\ \E k \in 1..Len(maps_data) : maps_resolution[k] = 0) => pc = "error"

\* C5, amended: the merge ends in ZeroDivisionError exactly when the resolution
\* of the last source is 0.
C5_LastZeroResolutionFails ==
    Terminated =>
        (pc = "error" /\ err = "ZeroDivisionError"
            <=> maps_resolution[Len(maps_data)] = 0)

\* the last of two resolutions is 0, the first is not, and the merge has failed
C5_Witness ==
    /\ pc = "error"
    /\ err = "ZeroDivisionError"
    /\ Len(maps_data) = 2
    /\ maps_resolution[1] > 0
    /\ maps_resolution[2] = 0

\* one of the three lists read by index is shorter than maps_data
SomeListShort ==
    \/ Len(maps_resolution) < Len(maps_data)
    \/ Len(maps_origin) < Len(maps_data)
    \/ Len(maps_size) < Len(maps_data)

SameLengths ==
    /\ Len(maps_resolution) = Len(maps_data)
    /\ Len(maps_origin) = Len(maps_data)
    /\ Len(maps_size) = Len(maps_data)

\* C4 as claimed: the merge returns no grid unless the four lists have one
\* length N >= 1.
C4_UnequalListsFail ==
    (Terminated /\ ~(SameLengths /\ Len(maps_data) >= 1)) => pc = "error"

\* C4, amended: the merge ends in IndexError when the list of resolutions,
\* origins or sizes is shorter than the list of grids, and in an error when
\* there is no grid; it returns a grid only if there is a grid and none of the
\* three lists is shorter than the list of grids.
C4_ShortListsFail ==
    Terminated =>
        /\ SomeListShort => (pc = "error" /\ err = "IndexError")
        /\ Len(maps_data) = 0 => (pc = "error" /\ err = "UnboundLocalError")

\* two grids and one resolution: the merge has failed at the second grid
C4_Witness ==
    /\ pc = "error"
    /\ err = "IndexError"
    /\ index = 1
    /\ Len(maps_data) = 2
    /\ Len(maps_resolution) = 1

-----------------------------------------------------------------------------
(* get_map_img: the claims *)

AllUnknown == \A k \in 1..Len(map_data) : map_data[k] = -1

\* the cell (r, c), 0-based, of img is in the slice of line 60
Kept(r, c) ==
    /\ SliceStart(RowFrom, height) <= r
    /\ r < SliceStop(RowTo, height)
    /\ SliceStart(ColFrom, width) <= c
    /\ c < SliceStop(ColTo, width)

\* the first and the last row and column each hold a cell other than -1
TightlyCropped ==
    /\ 0 \in KnownRows
    /\ (height - 1) \in KnownRows
    /\ 0 \in KnownCols
    /\ (width - 1) \in KnownCols

\* C6: the crop with padding 0 of a tightly cropped grid is the grid.
C6_CropIdempotence ==
    (pc = "done" /\ crop /\ padding = 0 /\ TightlyCropped) => cut_img = img

\* C7: the crop of a grid with a cell other than -1 keeps every such cell: the
\* cells it drops are all -1.
C7_CropKeepsKnownCells ==
    (pc = "done" /\ crop /\ ~AllUnknown) =>
        \A r \in 0..(height - 1), c \in 0..(width - 1) :
            img[r + 1][c + 1] # -1 => Kept(r, c)

\* the bounds of a grid of -1 after the loops of lines 44-55
Sentinels == min_x = width /\ max_x = 0 /\ min_y = height /\ max_y = 0

\* C9 as claimed: on a grid of -1 the bounds stay at their start values and the
\* crop is the whole grid or an empty grid.
C9_FullOrEmpty ==
    (crop /\ AllUnknown) =>
        /\ pc = "cut" => Sentinels
        /\ pc = "done" => (cut_img = img \/ CellCount(cut_img) = 0)

\* of n rows (columns) of -1, the crop with padding p keeps the 2p - n in the
\* middle, none when that is not positive and all n when p >= n
KeptOf(n, p) == IF 2 * p <= n THEN 0 ELSE IF p >= n THEN n ELSE 2 * p - n

\* C9, amended: on a grid of -1 the bounds stay at their start values and the
\* crop is the KeptOf(height, padding) x KeptOf(width, padding) middle of the
\* grid: the whole grid when padding >= height and padding >= width, empty
\* when 2 * padding <= height or 2 * padding <= width, and a proper part
\* otherwise.
C9_AllUnknownCrop ==
    (crop /\ AllUnknown) =>
        /\ pc = "cut" => Sentinels
        /\ pc = "done" =>
              cut_img = Unknown(KeptOf(height, padding), KeptOf(width, padding))

\* a grid of -1 cropped to a proper part of it that is not empty
C9_Witness ==
    /\ pc = "done"
    /\ crop
    /\ AllUnknown
    /\ CellCount(cut_img) > 0
    /\ CellCount(cut_img) < height * width

====
